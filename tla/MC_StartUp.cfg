SPECIFICATION Spec
CONSTANT RESETS = 1
PROPERTY StartsAgain
