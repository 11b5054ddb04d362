SPECIFICATION MCSpec
CONSTANTS
  t1 = t1
  t2 = t2
  c1 = c1
  c2 = c2
  e1 = e1
  e2 = e2
  Handler = {h1, h2}
  User = {u1, u2}
  Ip = {i1, i2}
  Night = {u1}
  BruteLimit = 2
  SessionIpLimit = 1
  BulkDeleteLimit = 1
  Student = {s1, s2, s3}
  Staff = {t1, ad}
  Admin = {ad}
  Course = {c1}
  Teaches <- MCTeaches
  Lesson = {d1}
  Token = {k1}
  Seats = {1, 2}
  Marker = {t1, t2}
  Dean = {}
  Subject = {c1, c2}
  TaughtBy <- MCTaughtBy
  Member = {e1, e2}
  CourseOf <- MCCourseOf
  Assessment = {x1, x2}
  Points = {1, 2}
  Title = {ta, tb}
  Suffix = {1, 2, 3}
  Email = {m1, m2}
  Password = {p1, p2}
  Reader = {u1, u2, u3}
  Admins = {u1, u2}
  Client = {ca, cb}
  Teacher = {ca}
  Privileged = {}
  Entry = {r1, r2, r3, r4}
  PageSize = 1
  Facts <- MCFacts
  Tx = {y1, y2}
  Web = {web}
  Worker = {job1}
  Graded <- MCGraded
  MaxOps = 5
  MaxCalls = 4
  MaxNotices = 3
  MaxFaults = 1
  MaxPages = 3
  MaxBreaks = 2
  MaxTime = 3
  MaxStarts = 2
  MaxTrainings = 2
  MaxWrites = 2
  MaxAsks = 2
SYMMETRY Symmetry
CHECK_DEADLOCK FALSE
INVARIANT TypeOK
INVARIANT GuessesBounded
INVARIANT NoDeviceUnnoticed
INVARIANT CapacityExcessExplained
INVARIANT QrMarksOneStudent
INVARIANT MarkedWhileActive
INVARIANT GradesFitTheirBound
INVARIANT StaleWritesExplained
INVARIANT UnpushedExplained
INVARIANT RoomFollowsPage
INVARIANT ExportMissesNothing
INVARIANT ModelFitsScaler
INVARIANT NoticeTellsOfStoredScores
INVARIANT RatesWithinBounds
