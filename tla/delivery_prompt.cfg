SPECIFICATION FairSpec
CONSTANTS
  sms = sms
  web = web
  mail = mail
  mail2 = mail2
  w1 = w1
  w2 = w2
  NoNotif = NoNotif
  Notifs = {sms}
  Workers = {w1, w2}
  Channel <- OnlySms
  SlowChannels <- Untimed
  MaxRetries = 2
  MaxOps = 1
INVARIANTS
  TypeOK
  ExclusiveClaim
  SendsAccounted
PROPERTIES
  DeliveryPromised
  DeliveringEnds
  CreatedSettles
