SPECIFICATION FairSpec
CONSTANT Threads = {t1, t2, t3, t4}
INVARIANTS WriterIsAlone CountersAreExact NoLostWakeup
PROPERTIES WriterProgress ReaderProgress ImplementsReadersWriter
