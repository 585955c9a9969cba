SPECIFICATION Spec
CONSTANTS
    Kakao = {1, 2}
    Emails = {"e1", "E1"}
    EmailOf <- MCEmailOf
    Normal <- MCNormal
    Requests = {r1, r2}
    NoRow = NoRow
    MaxUsers = 2
    Window = 1
    MaxClashes = 1
PROPERTY WithdrawnStays
