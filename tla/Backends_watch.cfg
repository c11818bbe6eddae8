SPECIFICATION Spec
CONSTANTS
    Backend = {10}
    Sender = {s1}
    MaxChange = 2
    Null = Null
PROPERTY ChangesArrive
