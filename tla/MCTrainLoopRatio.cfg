CONSTANTS
  Ranks = {0, 1}
  Setups <- MCSetups
  Jobs <- OffPolicyTeacher
  StudentTop <- MCStudentTop
  TeacherTops <- MCTeacherTops
SPECIFICATION Spec
CHECK_DEADLOCK FALSE
INVARIANT RatioSameTokens
