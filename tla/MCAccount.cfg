SPECIFICATION FairSpec
CONSTANTS
  Ids = {ann, bob}
  FullIds = {bob}
  Passwords = {x, y}
  FullPasswords = {x}
  Blank = y
  Tails = {t}
  MaxLost = 2
  NoAccount = NoAccount
  NoCall = NoCall
  NoEntry = NoEntry
  Garbage = Garbage
INVARIANT TypeOK
PROPERTIES IsRegistry EveryCallEnds
