CONSTANTS
  Loaders = {l1, l2}
  cart = cart
  shop = shop
  ops = ops
  web = web
  box = box
  pod = pod
  db = db
  topic = topic
  book = book
  ServicesFiles <- MCServicesFiles
  TeamsFiles <- MCTeamsFiles
  RunbooksFiles <- MCRunbooksFiles
  RemediationsFiles <- MCRemediationsFiles
  FirstFiles <- MCFirstFiles
  PlaceOf <- MCPlaceOf
  CallTables <- MCCallTables
  Windows = {"w1", "w2"}
  Torn = Torn
  NoFacts = NoFacts
  MaxOperations = 3
SYMMETRY MCSymmetry
SPECIFICATION Spec
INVARIANT GraphIsWhatWasSaid
PROPERTY LoadsSpeakOfTheFiles
CHECK_DEADLOCK FALSE
