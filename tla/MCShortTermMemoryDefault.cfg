\* The default limits: a short text, then one that nearly fills the window.
SPECIFICATION Spec
CONSTANTS
    MaxItems = 32
    MaxChars = 24000
    Texts <- DefaultTexts
PROPERTIES
    AddReturns
