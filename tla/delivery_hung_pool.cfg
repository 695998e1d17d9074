SPECIFICATION FairSpec
CONSTANTS
  sms = sms
  web = web
  mail = mail
  mail2 = mail2
  w1 = w1
  w2 = w2
  NoNotif = NoNotif
  Notifs = {mail, mail2}
  Workers = {w1, w2}
  Channel <- TwoMails
  SlowChannels <- Untimed
  MaxRetries = 0
  MaxOps = 0
PROPERTIES
  DeliveringEnds
