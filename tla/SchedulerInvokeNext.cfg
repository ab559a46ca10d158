CONSTANTS
    MaxId = 2
    MaxDepth = 3
    Fns = {f1}
    Ops = {"irq"}
SPECIFICATION Spec
PROPERTY InvokeNextActive
