\* Blocks are allocated and freed in any order
SPECIFICATION Spec
CONSTANTS
    HeapSize = 12
    StructSize = 1
    WantedSizes = {1, 2}
    StackGarbage = {}
INVARIANT FreeListsComplete
