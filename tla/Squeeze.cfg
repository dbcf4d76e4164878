\* One layer of one matrix, with embedding, output matrix and norms.
SPECIFICATION Spec
CONSTANTS
    Block = 4
    ScaleBytes = 1
    ChunkRows = 4
    NLayers = 1
    Matrices = 1
    Shapes <- SmallShapes
    Types <- Q8AndTernary
INVARIANTS TypeOK IndexedFileIsWhole LoadsWhatWasStored RowsGetTheirScales
\* A reader that has loaded, or found no file, is done.
CHECK_DEADLOCK FALSE
