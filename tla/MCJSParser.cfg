CONSTANT
  Sources <- MCSources
SPECIFICATION Spec
INVARIANT ContextScoped
INVARIANT LabelsInScope
INVARIANT StrictNamesChecked
INVARIANT PrecedenceRespected
INVARIANT TemplatesHeld
PROPERTY ParseEnds
