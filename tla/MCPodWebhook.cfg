SPECIFICATION FairWSpec
CONSTANTS
  Names = {"n1", "n2"}
  Applications = {"app"}
  Pods <- SomePods
  MaxChanges = 3
  MaxFailures = 1
  MaxLag = 2
INVARIANT VerifiedMetSomeVersion
PROPERTY MeetingPodGetsIn
