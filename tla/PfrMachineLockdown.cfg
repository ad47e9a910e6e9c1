SPECIFICATION MachineSpec
PROPERTIES
  LockdownIsTerminal
