\* Two requests under way, two logins.
SPECIFICATION Spec
CONSTANTS
    Conn = {c1, c2}
    SessionId = {s1, s2}
INVARIANT TypeOK
PROPERTIES StaysSettled OneReadMends CookiesSettle
