SPECIFICATION Spec
CONSTANT MaxMessages = 1
INVARIANT FieldsAreThere
CHECK_DEADLOCK FALSE
