SPECIFICATION KernelSpec
CONSTANT MAX_TASKS = 2
PROPERTY RoundRobin
