SPECIFICATION BidSpec
CONSTANTS
  Bidders = {b1, b2}
  Names = {1, 2}
  Day = 1
  Amounts = {10, 11, 12, 14, 16}
  Money = 28
INVARIANT BidsBuyNames
PROPERTY ClosedIsFinal
PROPERTY AuctionsEnd
