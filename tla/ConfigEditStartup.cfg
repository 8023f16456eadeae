SPECIFICATION EditSpec
CONSTANTS
  Editors = {e1}
  Bad = {e1}
  Torn = Torn
  Missing = Missing
  Nobody = Nobody
PROPERTIES
  FailedStartRestores
