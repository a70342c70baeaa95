SPECIFICATION MachineSpec
CONSTANTS
  ByteBits = 2
  SC_Halt = 0
  SC_Add = 5
  TextSize = 28
  MemSize = 36
  Times = {1}
  GPR <- MCGPR
  Programs <- MCShifts
  Registers <- MCRegisters
  Data <- MCData
  main = main
  NULL = NULL
  timer = timer
  disk = disk
  keyboard = keyboard
  Thread = {main, t1}
  Device = {timer, disk, keyboard}
  Periodic = {timer}
  Polling = {keyboard}
  Delay <- DeviceDelay
  SystemTick = 2
  UserTick = 1
  NestBound = 3
  CoffFiles <- AlignedFiles
  Fault = {"none", "noInput", "noOutput", "shortHeader", "shortSection", "diskFull"}
  NOFFMAGIC = 47789
  HeaderSize = 5
  PageSize = 2
  UserStackSize = 3
  Junk = 255
  Name = {"n"}
  File = {f1, f2}
  Descriptor = {3, 4, 5}
  Byte = {1}
  TransferSize = 1
  MaxLength = 2
  Handle = {h1, h2}
  None = None
PROPERTY ImplementsIsa
