CONSTANTS
  KernelSizes = {33554432, 45000000}
  Dtbos = {"blank", "dtb", "dtbo"}
SPECIFICATION MacroSpec
INVARIANTS ShippedSlotBoots
