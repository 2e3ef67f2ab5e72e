\* One frame that is serialized and that receives what was serialized, intact or
\* damaged, after it has become anything else; one parameter fits the vector.
\* Using a frame that was moved from may end the process: deadlock is no error.
CONSTANTS
    Key = {k1, k2}
    Val = {v1}
    SMALL_CAPACITY = 1
    NullPtr = NullPtr
    Frame = {f1}
    Hints = {0, 2}
    FIELDS = 2
    Field = {h1, h2}
    Bad = Bad
    Name = {n1}
    Body = {b1}
    Empty = Empty
    MaxAttachments = 2
    Absent = Absent
    NoBuffer = NoBuffer
SPECIFICATION Spec
SYMMETRY Symmetry
CHECK_DEADLOCK FALSE
PROPERTY FramesStayUsable
PROPERTY DeliveryIsFaithful
PROPERTY ReplacedInOrder
