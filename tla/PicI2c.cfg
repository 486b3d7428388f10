SPECIFICATION Spec
CONSTANTS
  Base = 2
  RSTBTN_DEB = 1
  SWDT_MIN = 1
  SWDT_DEFAULT = 2
  SIZE_MSG = 2
  Hosts = {
    {"EE_WRITE", "EE_STS", "EE_ADDR", "EE_READ"},
    {"SWDT_SET", "SWDT_GET", "MSG_SET", "MSG_GET", "MSG_PUTC", "MSG_GETC",
     "RBPT_SET", "RBPT_GET"},
    {"RNOP", "RESET", "EE_READ"}}
  Burst = 1
  PicResets = TRUE
INVARIANTS TypeOK EeIdleMeansWritten SwdtReadWhole
PROPERTIES EeOnlyOrdered EeBusyRefused EeEnds SwdtSetWhole MsgInside
