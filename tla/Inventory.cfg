CONSTANTS
    NodeOrder <- ThreeNodes
    AddressOf <- ThreeAddresses
    NoAddress = 0
    Namespaces <- TwoNamespaces
    Pods <- TwoPods
    NamespaceOf <- HomeNamespaces
    PodStatuses <- TwoStatuses
    NoNode = "nowhere"
    NoSample = 99
    Slots = 2
    MaxChanges = 2
SPECIFICATION FairSpec
INVARIANTS PagesAgree LoadIsOfTheNode ProblemsComeFirst
PROPERTIES SnapshotCatchesUp
