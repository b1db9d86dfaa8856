SPECIFICATION Spec
CONSTANTS
  Fan = 2
  Top = 4
  Hosts = {}
  Guests = {"exe","dll"}
  Frames = {0, 1, 2, 3, 4, 5, 6, 7, 8, 9, 12, 10, 11}
  DataFrames ={10,11}
  Mapped = {0,2}
  Flags = {{"P", "RW"}}
  BigSections = FALSE
INVARIANTS
  
  TablesApart

  
