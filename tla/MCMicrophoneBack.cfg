SPECIFICATION MicSpec
CONSTANTS
  MaxLinks = 2
  MaxSwitches = 0
  MaxRefusals = 0
PROPERTY MicrophoneComesBack
