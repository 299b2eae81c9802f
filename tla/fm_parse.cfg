\* A formatter parses the patterns its author meant and every short one.
SPECIFICATION FairSpec
CONSTANTS
  Char <- Characters
  Percent = "%"
  Open = "{"
  Shut = "}"
  Letter <- Letters
  Field <- Fields
  Pattern <- Patterns
  DefaultPattern <- DefaultText
  NewPattern <- NewPatterns
  Meant <- Readings
  MaxParses = 2
  MaxLength = 5
INVARIANTS SpelledOut ErrorMarked ReadsMeant
PROPERTY ParseAdvances
