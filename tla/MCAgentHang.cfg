\* A package mirror or download stops answering while initialize awaits it.
SPECIFICATION Spec
PROPERTY SetupNeverFatal
CHECK_DEADLOCK FALSE
