CONSTANT ChipAt = 1
SPECIFICATION Spec
INVARIANT NamesAreRegisters
