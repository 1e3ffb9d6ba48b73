------------------------------ MODULE Generators ------------------------------
(***************************************************************************)
(* The generators of pkg/generator that choose keys and operations, as the *)
(* worker goroutines share them (pkg/workload/core.go).                    *)
(*                                                                         *)
(* "latest" is SkewedLatest on Zipfian: a thread draws keys between its    *)
(* inserts, and what it draws depends on Last of the counter that all      *)
(* inserts go through.  Zipfian keeps a sum over the number of items; here *)
(* it is how often each term has been added to it.  What it returns is     *)
(* reduced to its range: with three items or more at the start, 0 < eta <  *)
(* 1 for every sum from the first on, so the draw is at most itemCount     *)
(* whichever of the sums it reads, and equal to it only by rounding.       *)
(***************************************************************************)
EXTENDS AcknowledgedCounter, Sequences, FiniteSetsExt, Functions

CONSTANTS
    Choosers,   \* the generators Init chooses from
    MaxDraws    \* bound on the draws of a sequential generator

ASSUME ItemsAssumption == Start >= 4 /\ Start <= MaxKey

\* The bounds of a range are given in order, but for Hotspot, which sorts them.
ASSUME ChooserAssumption ==
    \A c \in Choosers :
        /\ c.kind \in {"sequential", "uniform", "zipfian"} =>
             c.lower \in Nat /\ c.upper \in c.lower..(MaxKey - 1)
        /\ c.kind = "hotspot" => c.lower \in Int /\ c.upper \in Int /\ c.percent \in Int
        /\ c.kind = "discrete" => c.weights \in Seq(Nat)

VARIABLES
    g,            \* the generator: its kind and its arguments
    dpc,          \* where each thread is in Next of the generator
    max,          \* the itemCount of its draw
    from,         \* where its sum starts
    zlock,        \* Zipfian.lock
    countForZeta,
    summed,       \* zetan: how often each term was added
    drawn,        \* the key a thread has drawn
    taken,        \* Sequential.counter
    visits        \* history: how often Sequential returned each key

zetaVars == <<zlock, countForZeta, summed>>
sequentialVars == <<taken, visits>>
drawVars == <<dpc, max, from, drawn, sequentialVars, zetaVars>>
genVars  == <<vars, g, drawVars>>

Terms == 0..(MaxKey - 1)
Counting == g.kind \in {"latest", "exponential"}

\* NewSkewedLatest: as many items as the last record's number.
GenInit ==
    /\ Init
    /\ g \in Choosers
    /\ dpc = [t \in Threads |-> "none"]
    /\ max = [t \in Threads |-> 0]
    /\ from = [t \in Threads |-> 0]
    /\ zlock = 0
    /\ countForZeta = Start - 1
    /\ summed = [i \in Terms |-> IF i < Start - 1 THEN 1 ELSE 0]
    /\ drawn = [t \in Threads |-> 0]
    /\ taken = 0
    /\ visits = [k \in Terms |-> 0]

Draws(t, at, to) ==
    /\ dpc[t] = at
    /\ dpc' = [dpc EXCEPT ![t] = to]
    /\ UNCHANGED <<vars, g>>

-----------------------------------------------------------------------------
(* SkewedLatest.Next and Zipfian.next *)

ReadLast(t) ==
    /\ g.kind = "latest" /\ pc[t] = "idle"
    /\ Draws(t, "none", "check")
    /\ max' = [max EXCEPT ![t] = limit]
    /\ UNCHANGED <<from, drawn, sequentialVars, zetaVars>>

(* The count is read without the lock. *)
CheckCount(t) ==
    /\ Draws(t, "check", IF max[t] # countForZeta THEN "lock" ELSE "draw")
    /\ UNCHANGED <<max, from, drawn, sequentialVars, zetaVars>>

(* Mutant: the lock word is incremented, taken or not. *)
LockZetaAdd(t) ==
    /\ Draws(t, "lock", "recheck")
    /\ zlock' = zlock + 1
    /\ UNCHANGED <<max, from, drawn, sequentialVars, countForZeta, summed>>

LockZeta(t) ==
    /\ zlock = 0
    /\ Draws(t, "lock", "recheck")
    /\ zlock' = 1
    /\ UNCHANGED <<max, from, drawn, sequentialVars, countForZeta, summed>>

(* Mutant: the count is not compared again under the lock. *)
RecheckNot(t) ==
    /\ Draws(t, "recheck", "sum")
    /\ from' = [from EXCEPT ![t] = countForZeta]
    /\ countForZeta' = max[t]
    /\ UNCHANGED <<max, drawn, sequentialVars, zlock, summed>>

(* zeta stores the new count before it adds the terms; the sum is never    *)
(* recomputed for fewer items (allowItemCountDecrease is never set).       *)
Recheck(t) ==
    \/ /\ max[t] > countForZeta
       /\ Draws(t, "recheck", "sum")
       /\ from' = [from EXCEPT ![t] = countForZeta]
       /\ countForZeta' = max[t]
       /\ UNCHANGED <<max, drawn, sequentialVars, zlock, summed>>
    \/ /\ max[t] <= countForZeta
       /\ Draws(t, "recheck", "unlock")
       /\ UNCHANGED <<max, from, drawn, sequentialVars, zetaVars>>

StoreZetan(t) ==
    /\ Draws(t, "sum", "unlock")
    /\ summed' = [i \in Terms |-> summed[i] + IF from[t] <= i /\ i < max[t] THEN 1 ELSE 0]
    /\ UNCHANGED <<max, from, drawn, sequentialVars, zlock, countForZeta>>

(* Mutant: only the thread that has added terms gives the lock back. *)
UnlockZetaOnlyAfterSum(t) ==
    /\ Draws(t, "unlock", "draw")
    /\ zlock' = IF from[t] # 0 THEN 0 ELSE zlock
    /\ UNCHANGED <<max, from, drawn, sequentialVars, countForZeta, summed>>

UnlockZeta(t) ==
    /\ Draws(t, "unlock", "draw")
    /\ zlock' = 0
    /\ UNCHANGED <<max, from, drawn, sequentialVars, countForZeta, summed>>

(* Mutant: the number of items is read a second time for the draw. *)
DrawLatestAgain(t) ==
    /\ Draws(t, "draw", "drawn")
    /\ \E k \in 0..limit : drawn' = [drawn EXCEPT ![t] = max[t] - k]
    /\ UNCHANGED <<max, from, sequentialVars, zetaVars>>

DrawLatest(t) ==
    /\ Draws(t, "draw", "drawn")
    /\ \E k \in 0..max[t] : drawn' = [drawn EXCEPT ![t] = max[t] - k]
    /\ UNCHANGED <<max, from, sequentialVars, zetaVars>>

(* nextKeyNum with Exponential draws until the key is not negative. *)
DrawExponential(t) ==
    /\ g.kind = "exponential" /\ pc[t] = "idle"
    /\ Draws(t, "none", "drawn")
    /\ \E v \in 0..limit : drawn' = [drawn EXCEPT ![t] = limit - v]
    /\ UNCHANGED <<max, from, sequentialVars, zetaVars>>

Return(t) ==
    /\ Draws(t, "drawn", "none")
    /\ drawn' = [drawn EXCEPT ![t] = 0]
    /\ max' = [max EXCEPT ![t] = 0]
    /\ from' = [from EXCEPT ![t] = 0]
    /\ UNCHANGED <<sequentialVars, zetaVars>>

-----------------------------------------------------------------------------
(* The generators that do not look at the counter *)

(* Mutant: fractions out of range are taken as they are. *)
NewHotspotUnchecked(lb, ub, percent) ==
    LET interval == ub - lb + 1
    IN [lower |-> lb, hot |-> (interval * percent) \div 100,
        cold |-> interval - (interval * percent) \div 100]

NewHotspot(lb, ub, percent) ==
    LET fraction == IF percent \in 0..100 THEN percent ELSE 0
        lower    == Min({lb, ub})
        interval == Max({lb, ub}) - lower + 1
        hot      == (interval * fraction) \div 100
    IN [lower |-> lower, hot |-> hot, cold |-> interval - hot]

HotKeys(h)  == {h.lower + n : n \in 0..(h.hot - 1)}
ColdKeys(h) == {h.lower + h.hot + n : n \in 0..(h.cold - 1)}

UniformNext(lb, ub) == {n + lb : n \in 0..(ub - lb)}

(* A hash that is not negative, of a draw from ten thousand million. *)
ScrambledNext(min, mx) == {min + (h % (mx - min + 1)) : h \in 0..(2 * MaxKey)}

(* Discrete.Next for val = k / sum; 0 for the panic at its end. *)
DiscreteNext(weights, k) ==
    LET Rest(i)  == k - SumFunction(SubSeq(weights, 1, i - 1))
        accepted == {i \in DOMAIN weights : Rest(i) < weights[i]}
    IN IF accepted = {} THEN 0 ELSE Min(accepted)

SequentialNext(n) == g.lower + (n % (g.upper - g.lower + 1))

Visit(n) == visits' = [visits EXCEPT ![SequentialNext(n)] = @ + 1]

(* Mutant: the counter is loaded first and stored after the draw. *)
DrawSequentialLate(t) ==
    /\ g.kind = "sequential" /\ taken < MaxDraws
    /\ \/ /\ Draws(t, "none", "draw")
          /\ from' = [from EXCEPT ![t] = taken]
          /\ UNCHANGED sequentialVars
       \/ /\ Draws(t, "draw", "none")
          /\ taken' = from[t] + 1
          /\ Visit(from[t] + 1)
          /\ UNCHANGED from
    /\ UNCHANGED <<max, drawn, zetaVars>>

(* Sequential.Next is one atomic addition. *)
DrawSequential(t) ==
    /\ g.kind = "sequential" /\ taken < MaxDraws
    /\ Draws(t, "none", "none")
    /\ taken' = taken + 1
    /\ Visit(taken + 1)
    /\ UNCHANGED <<max, from, drawn, zetaVars>>

-----------------------------------------------------------------------------
DrawStep(t) ==
    \/ ReadLast(t) \/ CheckCount(t) \/ LockZeta(t) \/ Recheck(t)
    \/ StoreZetan(t) \/ UnlockZeta(t) \/ DrawLatest(t)
    \/ DrawExponential(t) \/ Return(t) \/ DrawSequential(t)

InsertStep(t) == Counting /\ dpc[t] = "none" /\ Step(t) /\ UNCHANGED <<g, drawVars>>

GenNext == \E t \in Threads : InsertStep(t) \/ DrawStep(t)

Drawing(t) == dpc[t] # "none" /\ DrawStep(t)

\* A goroutine that draws never waits for anything but the spin lock.
GenSpec == GenInit /\ [][GenNext]_genVars /\ \A t \in Threads : WF_genVars(Drawing(t))

-----------------------------------------------------------------------------
(* Every variable has its type; the spin lock of Zipfian is 0 or 1.        *)
GenTypeOK ==
    /\ TypeOK
    /\ dpc \in [Threads -> {"none", "check", "lock", "recheck", "sum", "unlock", "draw", "drawn"}]
    /\ zlock \in {0, 1} /\ countForZeta \in 0..MaxKey
    /\ \A t \in Threads : max[t] \in 0..MaxKey /\ from[t] \in 0..MaxKey

(* However the threads race to extend it, Zipfian's sum has each of its    *)
(* terms once whenever its lock is free: countForZeta is read outside the  *)
(* lock, moves before the terms are added, and is compared by threads that *)
(* hold older numbers of items.                                            *)
ZetaIsExact ==
    zlock = 0 => summed = [i \in Terms |-> IF i < countForZeta THEN 1 ELSE 0]

(* A key drawn counting back from Last lies between the first record and   *)
(* Last, although Last moves on during the draw and two draws share the    *)
(* sum.  Last itself is below the keys issued.                             *)
DrawnIsPublished ==
    \A t \in Threads : Counting /\ dpc[t] = "drawn" => drawn[t] \in 0..limit

(* A draw returns: the spin lock is never left taken, and a thread finds   *)
(* it taken only while another extends the sum.                            *)
DrawReturns == \A t \in Threads : dpc[t] # "none" ~> dpc[t] = "none"

(* Threads that share a sequential generator visit the keys of its range   *)
(* in turn: at no time has one of them been drawn twice more than another. *)
SequentialVisitsAll ==
    g.kind = "sequential" =>
        \A k, l \in g.lower..g.upper : visits[k] <= visits[l] + 1

(* What a generator can return is exactly the range it was made for: hot   *)
(* and cold keys of Hotspot are disjoint and leave none out, whatever the  *)
(* order of the bounds and the fraction, and Discrete returns an operation *)
(* for every number below one, in proportion to its weight.                *)
RangeIsCovered ==
    CASE g.kind = "hotspot" ->
            LET h == NewHotspot(g.lower, g.upper, g.percent)
            IN /\ HotKeys(h) \cap ColdKeys(h) = {}
               /\ HotKeys(h) \cup ColdKeys(h) =
                    Min({g.lower, g.upper})..Max({g.lower, g.upper})
      [] g.kind = "uniform" -> UniformNext(g.lower, g.upper) = g.lower..g.upper
      [] g.kind = "zipfian" -> ScrambledNext(g.lower, g.upper) = g.lower..g.upper
      [] g.kind = "discrete" ->
            LET values == 0..(SumFunction(g.weights) - 1)
            IN /\ \A i \in DOMAIN g.weights :
                    Cardinality({k \in values : DiscreteNext(g.weights, k) = i}) = g.weights[i]
               /\ \A k \in values : DiscreteNext(g.weights, k) # 0
      [] OTHER -> TRUE
=============================================================================
