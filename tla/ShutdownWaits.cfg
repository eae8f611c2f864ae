CONSTANT MaxLifecycle = 2
SPECIFICATION Spec
PROPERTY NoOpWhileWaiting
