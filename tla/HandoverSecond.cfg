SPECIFICATION Spec
CONSTANTS
  Clients = {x1, x2}
  Paths = {p1}
  Nobody = Nobody
  Cells = {a1, a2}
  Carriers = {"wifi"}
  MaxEvents = 1
INVARIANT OneRegistrationPerCarrier
