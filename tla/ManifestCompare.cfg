\* Two manifests of one directory, and an edit between them.
CONSTANTS
    Parts = {"manifest"}
    Outputs = {"m1", "m2"}
    Trees = {"t"}
    TreePaths <- NodePaths
    Unencodable = {2}
    Replaced = 0
    TreeStarts <- DirectoryStarts
    Nodes <- TreeNodes
    MaxManifestEntries = 3
    MaxLoadable = 3
    MaxEdits = 1
    MaxCommands = 3
    Unset = Unset
    Profiles <- BuiltIn
    Defaults <- DefaultFile
    ConfigFiles <- SomeFiles
    ProfileNames <- SomeNames
    Codecs = {"c1", "c2"}
    Ciphers = {"x1", "x2"}
    Units = {1, 4}
    MaxRecordSize = 15
    CodecOrder <- SomeCodecs
    CipherOrder <- SomeCiphers
    Durations = {1, 2}
    Sizes = {0, 1, 2}
    OriginalSize = 2
    Weight = 1
    KeyPaths = {"key", "other"}
    PublicPaths = {"public"}
    SignaturePaths = {"signature"}
    InputPaths = {"input"}
    Texts = {1, 2}
    Starts <- KeyStarts
    MaxCalls = 3
    MaxOthers = 1
    BaseNames <- FormNames
    Passwords = {"p", "q"}
    Empty = Empty
    Options <- FormOptions
    Operations = {"protect", "benchmark"}
    Secret = {"protect"}
    Reporting = {"benchmark"}
    None = None
    MaxOps = 2
    MaxEvents = 2
SPECIFICATION PartSpec
INVARIANT ManifestsAreCompared
CHECK_DEADLOCK FALSE
