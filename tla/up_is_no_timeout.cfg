CONSTANT Dhcp = TRUE
SPECIFICATION Spec
PROPERTIES UpIsNoTimeout
