SPECIFICATION FairSpec
CONSTANTS
  p1 = p1
  p2 = p2
  Processes = {p1}
  MaxMessage = 2
PROPERTIES InboxDrains IntentWakes SleepEnds
