CONSTANTS
  N = 2
  RtpSubs <- MCRtpSubs
SPECIFICATION Spec
INVARIANT NoFrameAfterClose
