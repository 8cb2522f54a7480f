SPECIFICATION FairSpec
CONSTANTS
  None = None
  Notifications = {n1, n2}
  Ticks = {t1, t2}
  MaxFaults = 2
  Nobody = Nobody
  Users = {u1, u2}
  Privileged = {u1}
  Requests = {r1, r2}
  Polls = {q1, q2}
  Scheduled = {s1, s2}
  BatchLimit = 1
  MaxRestarts = 1
  Noone = Noone
  People = {p1, p2}
  Tabs = {w1, w2}
  Companies = {c1, c2}
  Statuses = {"AWAY"}
  MaxTyped = 2
  MaxRead = 2
  Traders = {b1, b2}
  EnquiryIds = {1, 2}
  Turnovers = {0, 5}
  Prices = {7}
  Copies = {1, 2, 3}
  Blank = Blank
  Kept = Kept
  Talkers = {z1, z2}
  Rooms = {1, 2}
  Persons = {p1, p2, p3}
  Typists = {y1, y2}
  Contents = {"a", "b"}
  Erased = Erased
  MaxVersion = 3
  Messages = {m1, m2}
  Voters = {v1}
  Choices = {o1, o2}
  Calls = {c1, c2}
  FollowUps = {1, 2}
  Days = {1, 2}
  Never = Never
  Devices = {d1, d2}
  SessionIds = {1, 2, 3}
  NoDevice = NoDevice
INVARIANTS
  DeliverySound
  UnreadCounted
  ScheduledOnce
  ContentKept
  ConversationsKept
  DoneOnce
  EnquiriesAgree
PROPERTIES
  DeliverySettles
  ChatSettles
