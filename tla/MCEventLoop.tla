----------------------------- MODULE MCEventLoop -----------------------------
EXTENDS EventLoop
CONSTANTS m1, m2, t1, t2
MCMicroTask == {m1, m2}
MCMacroTask == {t1, t2}
=============================================================================
