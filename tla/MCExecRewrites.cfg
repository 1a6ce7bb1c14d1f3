CONSTANTS
  binary = binary
  script = script
  junk = junk
  script_format = script_format
  m1 = m1
  m2 = m2
  m3 = m3
  File <- MCFile
  NoFile = NoFile
  Format <- MCFormat
  Elf = Elf
  NoFormat = NoFormat
  FormatOf <- MCFormatOf
  Printable <- MCPrintable
  Mm <- MCMm
  NoMm = NoMm
SPECIFICATION Spec
INVARIANT FourRewrites
