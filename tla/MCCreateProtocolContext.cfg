SPECIFICATION Spec
INVARIANT ContextAsserted
