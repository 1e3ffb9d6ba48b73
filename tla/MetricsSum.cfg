SPECIFICATION Spec
CONSTANTS
    t1 = t1
    t2 = t2
    Instances = {1, 2}
    Threads = {t1, t2}
    Latencies = {0, 2}
    Scale = 12
    Configurations <- SumConfigurations
INVARIANT CountsAreSummed
CHECK_DEADLOCK FALSE
