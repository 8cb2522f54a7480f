SPECIFICATION FairDeliverySpec
CONSTANTS
  None = None
  Notifications = {n1}
  Ticks = {t1}
  MaxFaults = 1
PROPERTIES
  NotificationsKept
