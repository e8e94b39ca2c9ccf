SPECIFICATION Spec
CONSTANTS
    WordBits = 4
    CharMax = 3
    MaxValues = {0, 1, 4}
    MaxLength = 3
    MaxFields = 3
    Hooked = {0, 1, 4, 5}
    Texts <- MCTexts
    Space = 3
    NoValue = NoValue
INVARIANTS FieldsApart CharactersConsecutive CleanFieldsKnown HubSetsOneField
