SPECIFICATION Spec
CONSTANTS
  Tags <- BodyTags
  DepthCap = 256
  AfeCap = 64
  ArkCap = 2
  OuterCap = 2
  InnerCap = 1
  MaxNodes = 5
INVARIANTS TextInOrder StackIsBranch ListFollowsStack
PROPERTY FormattingKept
CHECK_DEADLOCK FALSE
