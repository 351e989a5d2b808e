\* The form of the account page while another device changes the profile.
SPECIFICATION ProfileSpec
CONSTANTS
  Fields = {name, phone}
  Values = {a, b, c}
  Tabs = {t1}
  MaxIds = 1
  NoChange = NoChange
  NoForm = NoForm
  NoValues = NoValues
PROPERTIES
  SavesOnlyWhatWasTyped
CHECK_DEADLOCK FALSE
