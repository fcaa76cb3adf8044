CONSTANTS
    KernelBytes <- MCKernelBytes
    PT_SIZE = 6
SPECIFICATION MachineSpec
 
INVARIANT MapsToItself
INVARIANT TrapsComeBack
CHECK_DEADLOCK FALSE
