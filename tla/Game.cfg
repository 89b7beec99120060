SPECIFICATION GameSpec
CONSTANTS
  Players = {a, b}
  Types = {blood, corruption}
  Stacking = {Pheromone}
  Sacrificed = {blood}
  Corrupting = {corruption}
  Pheromone = Pheromone
  Groups = 1
  FirstSlots = 1
  MaxSlots = 2
  ForgeCost = 2
  MaxStack = 2
  Loots <- FewLoots
  MaxIsolated = 1
  Roamers = {a}
  Empty = Empty
  Nobody = Nobody
  Ultras = {u}
  Eternals = {e}
  Primordials = {p}
  Possessed = {u, e}
  Zones = {1, 2}
  MaxMoves = 1
  Nothing = Nothing
  Guests = {g}
  Codes = {1, 2}
  MinGuests = 1
  IdleLimit = 1
  MaxWorldId = 2
  MaxBuilt = 4
  NoWorld = NoWorld
  NoCode = NoCode
  PlayerIds = {1, 2, 3}
  SquadLimits = {2, 3}
  Recycled = {1}
  MaxSessions = 2
  NoSquad = NoSquad
  Accounts = {x, y}
  MaxReviews = 2
  MaxCooling = 2
  MaxLogins = 2
  MaxEpochs = 3
  NoReview = NoReview
  Lands = {w1, w2}
  MaxId = 2
  Pilots = {p1, p2}
  Homes = {w1}
  Travellers = {p1}
  MaxGiven = 4
  NoEntity = NoEntity
  NoLand = NoLand
  NoHandle = NoHandle
  Builds = {b1, b2}
  Half = Half
  NoSnapshot = NoSnapshot
  MaxChanges = 2
  INPUT_QUEUE_CAPACITY = 4
  MAX_INPUT_DELAY_TICKS = 3
  MaxTicks = 5
  SequenceRange = 8
  FirstSequences = {5}
  MaxInputs = 4
  NoSequence = NoSequence
  NoOperate = NoOperate
INVARIANTS
  GameTypeOK SlotsAreTrue PetalsAreAccounted CarriedIsRegistered
  RoomsAreSound SquadsAreAgreedOn ReportsAreTracked WorldsAreSound
  ReloadsAreSound InputsAreInOrder
PROPERTIES RefundsArePaidFor PlayersKeepTheirWorld HandlesNameOne ControlIsKept
CHECK_DEADLOCK FALSE
