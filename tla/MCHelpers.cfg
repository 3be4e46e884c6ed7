\* Every day until 2401, past a whole cycle of the calendar, and every second
\* of a month's end; images of up to four bytes, one more than a group; a
\* buffer of twelve bits, which overflows at once.
CONSTANTS
  LastDay = 157800
  FullDays = {30}
  Bytes = {0, 137, 255}
  MaxBytes = 4
  MaxNoise = 2
  Modulus = 4096
SPECIFICATION Spec
INVARIANTS IInv StampsRight ScreenshotIsImage
CHECK_DEADLOCK FALSE
