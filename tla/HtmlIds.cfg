SPECIFICATION Spec
CONSTANTS
  Tags <- BodyTags
  DepthCap = 256
  AfeCap = 64
  ArkCap = 3
  OuterCap = 8
  InnerCap = 3
  MaxNodes = 5
INVARIANT IdsAgree
CHECK_DEADLOCK FALSE
