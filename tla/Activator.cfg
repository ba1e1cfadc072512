CONSTANTS
  p1 = p1  p2 = p2
  b1 = b1  b2 = b2  b3 = b3
  Package = {p1, p2}
  MCU = {b1, b2, b3}
  Object <- Objects
  Anything = Anything
SPECIFICATION ToolSpec
PROPERTIES
  SuccessStartsAll
