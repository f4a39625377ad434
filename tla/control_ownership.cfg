SPECIFICATION Spec
CONSTANTS
  Commands <- All
INVARIANTS
  OneReceiver
  ReceiverRecorded
  NoReturningGateway
PROPERTY
  HandoverWaits
