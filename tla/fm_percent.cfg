\* A pattern with two percent signs in a row.
SPECIFICATION Spec
CONSTANTS
  Char <- Characters
  Percent = "%"
  Open = "{"
  Shut = "}"
  Letter <- Letters
  Field <- Fields
  Pattern <- Patterns
  DefaultPattern <- DefaultText
  NewPattern <- NewPatterns
  Meant <- Readings
  MaxParses = 1
  MaxLength = 5
INVARIANT PercentEscaped
