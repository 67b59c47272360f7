\* One managed tool, one that is not managed and one that is on the PATH; four versions;
\* any configuration at each start.
CONSTANTS
  CMD = "binny"
  Tool = {"syft", "quill", "git"}
  OnPath = {"git"}
  Version = {"0.13.0", "0.13", "0.14.0", "main"}
  None = None
  Tokens <- MCTokens
  Embedded <- MCEmbedded
  Configs <- MCConfigs
SPECIFICATION ToolsSpec
INVARIANTS TypeOK ServesConfigured InstallerCurrent NoNeedlessUpgrade
