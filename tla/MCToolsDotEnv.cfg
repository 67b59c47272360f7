\* As MCTools: .env is read once, from where the first command runs.
CONSTANTS
  CMD = "binny"
  Tool = {"syft", "quill", "git"}
  OnPath = {"git"}
  Version = {"0.13.0", "0.13", "0.14.0", "main"}
  None = None
  Tokens <- MCTokens
  Embedded <- MCEmbedded
  Configs <- MCConfigs
SPECIFICATION ToolsSpec
INVARIANT DotEnvIsProjects
