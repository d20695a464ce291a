SPECIFICATION Spec
CONSTANTS
  Semi = Semi
  name = name
  text = text
  id = id
  MaxRequests = 4
  MaxOthers = 3
INVARIANTS  AnswersNeverMerge  
