SPECIFICATION TypingSpec
CONSTANTS
  Size = 4
  Letters = {"a", "b", "[", "1", "3", "~", "A", "C", "D"}
  Typed = {"a"}
  Zero = "0"
  ParameterBound = 33
  Gap = 6
INVARIANTS ScreenShowsLine NoStaleParameter
PROPERTIES NoCharacterLost ImplementsEditedLine EchoSettles
