CONSTANTS
  N = 2
  RtpSubs <- MCRtpSubs
SPECIFICATION FairSpec
PROPERTY ShutdownIsFinal
